---------------------------- MODULE Spec2Model ----------------------------
(***************************************************************************)
(* A model of the CST snapshot renderer of the Solidity testing utilities  *)
(* (crates/solidity/testing/utils/src/cst_snapshots/mod.rs): the source    *)
(* listing with per-line byte ranges, the error list, the depth-first      *)
(* rendering of the tree through a forward-only cursor with single-child   *)
(* inlining, the preview of a node's text, and the lazily built            *)
(* NON_INLINABLE set.                                                      *)
(*                                                                         *)
(* Text is a sequence of bytes (naturals below 256).  The rendered output  *)
(* is a sequence of pieces, one per write!/writeln! of the code.           *)
(***************************************************************************)
EXTENDS Naturals, Sequences, FiniteSets

VARIABLES
    source,     \* the source text handed to the operation under study
    errors,     \* render: the diagnostics
    tree,       \* render: the tree the cursor walks
    cursor,     \* render: the CursorWithNames
    stack,      \* render: the active write_node calls, innermost last
    w,          \* render: the output written so far
    pc,         \* the position of the operation under study
    failed,     \* which assertion or unwrap failed, "" when none
    advances,   \* render: successful go_to_next() calls of this render
    visited,    \* render: the nodes the cursor has stood on, in order
    inlined,    \* render: the nodes written on the same line as their child
    renders,    \* render: completed renders
    out1,       \* render: the output of the first completed render
    cell,       \* the Lazy cell behind NON_INLINABLE
    threads,    \* lazy: each thread's position, local set and observation
    initRuns,   \* lazy: how many times the initializer has been started
    range,      \* preview: the node range
    contents,   \* preview: the text being built
    line_data,  \* source listing: the lines still to be written
    offset      \* source listing: the running byte offset

vars == << source, errors, tree, cursor, stack, w, pc, failed, advances,
           visited, inlined, renders, out1, cell, threads, initRuns, range,
           contents, line_data, offset >>

----------------------------------------------------------------------------
(* Bounds of the model. *)

MaxNodes == 3        \* nodes of a tree
MaxThreads == 2      \* threads that use NON_INLINABLE concurrently
MaxAccesses == 2     \* uses of NON_INLINABLE per thread
MaxSrcChars == 4     \* characters of a source given to write_source
MaxStart == 1        \* letters before the start of a previewed range
MaxShortPad == 1     \* the longest of the short runs of letters in a previewed range
MaxNear == 6         \* how far below max_length the long runs of letters start
MaxOver == 2         \* how far above max_length the long runs of letters end

----------------------------------------------------------------------------
(* Bytes and UTF-8. *)

RECURSIVE Flatten(_)
Flatten(ss) == IF ss = << >> THEN << >> ELSE Head(ss) \o Flatten(Tail(ss))

Repeat(b, n) == [i \in 1..n |-> b]

Min(a, b) == IF a < b THEN a ELSE b
Max(a, b) == IF a > b THEN a ELSE b

TAB == 9
LF == 10
CR == 13
DQUOTE == 34
SQUOTE == 39
DOT == 46
BACKSLASH == 92

IsContinuation(b) == b >= 128 /\ b < 192

\* The length of the character a byte leads, 0 when it leads none.
CharWidth(b) ==
    IF b < 128 THEN 1
    ELSE IF b >= 194 /\ b < 224 THEN 2
    ELSE IF b >= 224 /\ b < 240 THEN 3
    ELSE IF b >= 240 /\ b < 245 THEN 4
    ELSE 0

RECURSIVE Utf8ValidFrom(_, _)
Utf8ValidFrom(bytes, i) ==
    IF i > Len(bytes) THEN TRUE
    ELSE LET n == CharWidth(bytes[i]) IN
         /\ n > 0
         /\ i + n - 1 <= Len(bytes)
         /\ \A k \in 1..(n - 1) : IsContinuation(bytes[i + k])
         /\ Utf8ValidFrom(bytes, i + n)

\* String::from_utf8(bytes).is_ok()
Utf8Valid(bytes) == Utf8ValidFrom(bytes, 1)

\* str::chars().count()
CharCount(bytes) == Cardinality({i \in 1..Len(bytes) : ~IsContinuation(bytes[i])})

\* The byte offsets (0-based) at which a character of the text starts, and its end.
Boundaries(bytes) ==
    {i \in 0..Len(bytes) : i = Len(bytes) \/ ~IsContinuation(bytes[i + 1])}

Contains(bytes, b) == \E i \in 1..Len(bytes) : bytes[i] = b

\* str::replace(char, &str)
Replace(bytes, b, rep) ==
    Flatten([i \in 1..Len(bytes) |-> IF bytes[i] = b THEN rep ELSE << bytes[i] >>])

----------------------------------------------------------------------------
(* render_preview *)

max_length == 50

\* source.bytes().skip(range.start).take(length.clamp(0, max_length)).collect()
Collect(src, rng) ==
    LET length == rng[2] - rng[1]
        first == Min(rng[1], Len(src))
        n == Min(Min(length, max_length), Len(src) - first)
    IN  SubSeq(src, first + 1, first + n)

\* A mutant: a value of exactly max_length bytes gets the terminator too.
AddTerminatorFrom(text, length) ==
    IF length >= max_length THEN text \o << DOT, DOT, DOT >> ELSE text

\* if length > max_length { contents.push_str("...") }
AddTerminator(text, length) ==
    IF length > max_length THEN text \o << DOT, DOT, DOT >> ELSE text

\* .replace('\t', "\\t").replace('\r', "\\r").replace('\n', "\\n")
Escape(text) ==
    Replace(Replace(Replace(text, TAB, << BACKSLASH, 116 >>),
                    CR, << BACKSLASH, 114 >>),
            LF, << BACKSLASH, 110 >>)

\* A mutant: the single quotes of a single-quoted value are left single.
QuoteWithoutDoubling(text) ==
    IF Contains(text, DQUOTE)
    THEN << SQUOTE >> \o text \o << SQUOTE >>
    ELSE << DQUOTE >> \o Replace(text, DQUOTE, << BACKSLASH, DQUOTE >>) \o << DQUOTE >>

\* Surround by quotes for use in yaml.
Quote(text) ==
    IF Contains(text, DQUOTE)
    THEN << SQUOTE >> \o Replace(text, SQUOTE, << SQUOTE, SQUOTE >>) \o << SQUOTE >>
    ELSE << DQUOTE >> \o Replace(text, DQUOTE, << BACKSLASH, DQUOTE >>) \o << DQUOTE >>

\* The whole function: ok is FALSE when String::from_utf8(..).unwrap() panics.
render_preview(src, rng) ==
    LET taken == Collect(src, rng) IN
    IF Utf8Valid(taken)
    THEN [ok |-> TRUE, text |-> Quote(Escape(AddTerminator(taken, rng[2] - rng[1])))]
    ELSE [ok |-> FALSE, text |-> << >>]

----------------------------------------------------------------------------
(* str::lines, write_source, write_errors *)

\* The index of the first LF of the text at or after i, 0 when there is none.
RECURSIVE FindLF(_, _)
FindLF(bytes, i) ==
    IF i > Len(bytes) THEN 0
    ELSE IF bytes[i] = LF THEN i
    ELSE FindLF(bytes, i + 1)

\* One line without its terminator: a final LF, and a CR before that LF.
StripTerminator(seg) ==
    IF seg # << >> /\ seg[Len(seg)] = LF
    THEN LET body == SubSeq(seg, 1, Len(seg) - 1) IN
         IF body # << >> /\ body[Len(body)] = CR
         THEN SubSeq(body, 1, Len(body) - 1)
         ELSE body
    ELSE seg

\* str::lines(): the text split after each LF, every piece without its terminator
\* (LF, or CR LF); a CR that no LF follows stays in its line.
RECURSIVE Lines(_)
Lines(bytes) ==
    IF bytes = << >> THEN << >>
    ELSE LET k == FindLF(bytes, 1) IN
         IF k = 0 THEN << StripTerminator(bytes) >>
         ELSE << StripTerminator(SubSeq(bytes, 1, k)) >>
              \o Lines(SubSeq(bytes, k + 1, Len(bytes)))

\* source.lines().enumerate().map(|(index, line)| (index, line, bytes, chars))
LineData(src) ==
    LET ls == Lines(src) IN
    [i \in 1..Len(ls) |->
        [index |-> i - 1, line |-> ls[i], bytes |-> Len(ls[i]), chars |-> CharCount(ls[i])]]

min_width == 80

\* max(widest line in characters, 80)
SourceWidth(ld) ==
    LET widest == IF ld = << >> THEN 0
                  ELSE CHOOSE c \in {ld[i].chars : i \in 1..Len(ld)} :
                           \A i \in 1..Len(ld) : ld[i].chars <= c
    IN  Max(widest, min_width)

\* A piece of output: what one write!/writeln! appends.
Piece(t, k, n, p, r, d) == [t |-> t, k |-> k, n |-> n, p |-> p, r |-> r, d |-> d]

Lit(t) == Piece(t, "", << >>, << >>, << 0, 0 >>, 0)

\* One iteration of the loop of write_source: the line written and the next offset.
SourceLine(d, width, off) ==
    [piece |-> Piece("line", "", << >>, d.line, << off, off + d.bytes >>, d.index + 1),
     padding |-> width - d.chars,
     next |-> (off + d.bytes) + 1]

RECURSIVE SourceLines(_, _, _)
SourceLines(ld, width, off) ==
    IF ld = << >> THEN << >>
    ELSE LET l == SourceLine(Head(ld), width, off) IN
         << l.piece >> \o SourceLines(Tail(ld), width, l.next)

write_source(src) ==
    IF src = << >> THEN << Lit("Source: \"\"") >>
    ELSE LET ld == LineData(src) IN
         << Lit("Source: >") >> \o SourceLines(ld, SourceWidth(ld), 0)

write_errors(errs) ==
    IF errs = << >> THEN << Lit("Errors: []") >>
    ELSE << Piece("Errors: # total", "", << >>, << >>, << 0, 0 >>, Len(errs)) >>
         \o Flatten([i \in 1..Len(errs) |->
                << Lit("  - >") >>
                \o [j \in 1..Len(Lines(errs[i])) |->
                       Piece("error line", "", << >>, Lines(errs[i])[j], << 0, 0 >>, 0)]])

----------------------------------------------------------------------------
(* The grammar items and NON_INLINABLE *)

\* SolidityDefinition::create().items(): one item of every kind of the item model.
Items ==
    << [tag |-> "Struct",     name |-> "ContractDefinition"],
       [tag |-> "Enum",       name |-> "Statement"],
       [tag |-> "Repeated",   name |-> "Statements"],
       [tag |-> "Separated",  name |-> "Arguments"],
       [tag |-> "Precedence", name |-> "Expression"],
       [tag |-> "Trivia",     name |-> "Whitespace"],
       [tag |-> "Keyword",    name |-> "IfKeyword"],
       [tag |-> "Token",      name |-> "Identifier"],
       [tag |-> "Fragment",   name |-> "HexDigit"] >>

\* The kind of the grammar item that has this name.
ItemTag(kind) == Items[CHOOSE i \in 1..Len(Items) : Items[i].name = kind].tag

NonTerminalTags == {"Struct", "Enum", "Repeated", "Separated", "Precedence"}
TokenTags == {"Trivia", "Keyword", "Token"}

\* slang_solidity::kinds: the kinds a Rule node and a Token node can have.
RuleKind == {Items[i].name : i \in {j \in 1..Len(Items) : Items[j].tag \in NonTerminalTags}}
TokenKind == {Items[i].name : i \in {j \in 1..Len(Items) : Items[j].tag \in TokenTags}}

\* One arm of the match in the initializer: what the item adds to kinds.
\* A mutant: only Repeated items are kept out of inlining.
InsertItemRepeatedOnly(kinds, item) ==
    IF item.tag = "Repeated" THEN kinds \cup {item.name} ELSE kinds

InsertItem(kinds, item) ==
    IF item.tag \in {"Repeated", "Separated"} THEN kinds \cup {item.name}
    ELSE kinds

\* for item in items { match item { ... } }, from the i-th item on.
RECURSIVE InsertFrom(_, _)
InsertFrom(kinds, i) ==
    IF i > Len(Items) THEN kinds ELSE InsertFrom(InsertItem(kinds, Items[i]), i + 1)

\* The closure given to Lazy::new.
NonInlinableInit == InsertFrom({}, 1)

\* once_cell::sync::Lazy: the cell is incomplete, running (one thread runs the
\* initializer) or complete (the value is set and never set again).
NewCell == [state |-> "incomplete", value |-> {}]

\* Lazy::force from a single thread: the initializer runs when the cell is incomplete.
Force(c) ==
    IF c.state = "complete" THEN c
    ELSE [state |-> "complete", value |-> NonInlinableInit]

----------------------------------------------------------------------------
(* Trees: slang_solidity::cst::Node *)

\* Whether a is x or an ancestor of x under the parent vector p.
RECURSIVE IsAncestorOrSelf(_, _, _)
IsAncestorOrSelf(p, a, x) ==
    IF x = a THEN TRUE
    ELSE IF x = 0 THEN FALSE
    ELSE IsAncestorOrSelf(p, a, p[x])

\* The parent vectors of the trees of n nodes, the nodes numbered in pre-order.
ParentVecs(n) ==
    {p \in [1..n -> 0..(n - 1)] :
        /\ p[1] = 0
        /\ \A i \in 2..n : p[i] >= 1 /\ p[i] < i /\ IsAncestorOrSelf(p, p[i], i - 1)}

ChildrenOf(p, n, x) ==
    LET cs == {i \in 1..n : p[i] = x}
        Nth[k \in 1..Cardinality(cs)] ==
            CHOOSE c \in cs : Cardinality({d \in cs : d < c}) = k - 1
    IN  [k \in 1..Cardinality(cs) |-> Nth[k]]

\* The trees over one parent vector: a Token node has no children.
TreesOn(p) ==
    LET n == Len(p) IN
    {[size |-> n,
      kind |-> k,
      children |-> [x \in 1..n |-> ChildrenOf(p, n, x)]] :
        k \in {kk \in [1..n -> RuleKind \cup TokenKind] :
                  \A x \in 1..n : kk[x] \in TokenKind => \A i \in 1..n : p[i] # x}}

\* Every tree of at most MaxNodes nodes.
Trees == UNION {TreesOn(p) : p \in UNION {ParentVecs(n) : n \in 1..MaxNodes}}

IsRule(t, x) == t.kind[x] \in RuleKind

\* The text of a token, by its kind.
TokenText(kind) ==
    IF ItemTag(kind) = "Trivia" THEN << 32 >>
    ELSE IF ItemTag(kind) = "Keyword" THEN << 105, 102 >>
    ELSE << 120 >>

\* The text a node covers: a token's own text, a rule's children's texts in order.
RECURSIVE NodeText(_, _)
NodeText(t, x) ==
    IF IsRule(t, x)
    THEN Flatten([i \in 1..Len(t.children[x]) |-> NodeText(t, t.children[x][i])])
    ELSE TokenText(t.kind[x])

\* Node::text_len
TextLen(t, x) == Len(NodeText(t, x))

Root == 1

\* The field name a child is bound to by its parent: the fields of a Struct,
\* the variant of an Enum, the operand of a Precedence; none in a list.
FieldName(t, parent, idx) ==
    IF parent = 0 THEN << >>
    ELSE IF ItemTag(t.kind[parent]) = "Struct"
         THEN (IF idx = 1 THEN << 79, 112, 101, 110, 66, 114 >>     \* OpenBr
               ELSE << 66, 111, 100, 121 >>)                        \* Body
    ELSE IF ItemTag(t.kind[parent]) = "Enum" THEN << 86, 97, 114 >> \* Var
    ELSE IF ItemTag(t.kind[parent]) = "Precedence" THEN << 79, 112 >> \* Op
    ELSE << >>

\* Inflector::to_snake_case of a PascalCase name: an upper-case letter becomes its
\* lower-case letter, after an underscore unless it is the first.
to_snake_case(name) ==
    Flatten([i \in 1..Len(name) |->
        IF name[i] >= 65 /\ name[i] <= 90
        THEN (IF i = 1 THEN << name[i] + 32 >> ELSE << 95, name[i] + 32 >>)
        ELSE << name[i] >>])

----------------------------------------------------------------------------
(* The cursor: slang_solidity::cursor *)

\* A cursor at the root of a tree.
NewCursor ==
    [node |-> Root, idx |-> 0, offset |-> 0, path |-> << >>, completed |-> FALSE]

Parent(c) == IF c.path = << >> THEN 0 ELSE c.path[Len(c.path)].node

\* cursor.text_range().utf8()
text_range(t, c) == << c.offset, c.offset + TextLen(t, c.node) >>

\* cursor.node_name()
node_name(t, c) == FieldName(t, Parent(c), c.idx)

go_to_first_child(t, c) ==
    IF c.completed \/ t.children[c.node] = << >>
    THEN [ok |-> FALSE, c |-> c]
    ELSE [ok |-> TRUE,
          c |-> [c EXCEPT !.node = t.children[c.node][1],
                          !.idx = 1,
                          !.path = Append(c.path,
                                     [node |-> c.node, idx |-> c.idx, offset |-> c.offset])]]

go_to_next_sibling(t, c) ==
    IF c.completed \/ c.path = << >> \/ c.idx >= Len(t.children[Parent(c)])
    THEN [ok |-> FALSE, c |-> c]
    ELSE [ok |-> TRUE,
          c |-> [c EXCEPT !.node = t.children[Parent(c)][c.idx + 1],
                          !.idx = c.idx + 1,
                          !.offset = c.offset + TextLen(t, c.node)]]

go_to_parent(c) ==
    IF c.path = << >>
    THEN [ok |-> FALSE, c |-> [c EXCEPT !.completed = TRUE]]
    ELSE LET up == c.path[Len(c.path)] IN
         [ok |-> TRUE,
          c |-> [c EXCEPT !.node = up.node, !.idx = up.idx, !.offset = up.offset,
                          !.path = SubSeq(c.path, 1, Len(c.path) - 1)]]

\* while !go_to_next_sibling() { if !go_to_parent() { return false } } true
RECURSIVE go_to_next_non_descendent(_, _)
go_to_next_non_descendent(t, c) ==
    IF c.completed THEN [ok |-> FALSE, c |-> c]
    ELSE LET s == go_to_next_sibling(t, c) IN
         IF s.ok THEN s
         ELSE LET up == go_to_parent(c) IN
              IF up.ok THEN go_to_next_non_descendent(t, up.c) ELSE up

\* The next node in pre-order: the first child, else the next node that is no descendent.
go_to_next(t, c) ==
    IF c.completed THEN [ok |-> FALSE, c |-> c]
    ELSE LET down == go_to_first_child(t, c) IN
         IF down.ok THEN down ELSE go_to_next_non_descendent(t, c)

----------------------------------------------------------------------------
(* CstSnapshots::render, write_tree, write_node *)

\* A mutant: the output buffer is kept from one render to the next.
ReusedOutput(previous) == previous

\* let mut w = String::new();
NewOutput(previous) == << >>

\* let indentation = " ".repeat(4 * depth); write!(w, "{indentation}  - ")
Indentation(depth) == Piece("{indentation}  - ", "", << >>, << >>, << 0, 0 >>, 4 * depth)

render_key(t, c) ==
    LET name == node_name(t, c) IN
    IF name # << >>
    THEN Piece("({name}: {kind})", t.kind[c.node], to_snake_case(name), << >>, << 0, 0 >>, 0)
    ELSE Piece("({kind})", t.kind[c.node], << >>, << >>, << 0, 0 >>, 0)

\* ok is FALSE when render_preview panics.
render_value(t, c, src) ==
    LET rng == text_range(t, c)
        preview == render_preview(src, rng)
    IN  [ok |-> preview.ok,
         piece |->
            IF IsRule(t, c.node) /\ t.children[c.node] = << >>
            THEN Piece(": [] # ({range:?})", "", << >>, << >>, rng, 0)
            ELSE IF IsRule(t, c.node)
            THEN Piece(": # {preview} ({range:?})", "", << >>, preview.text, rng, 0)
            ELSE Piece(": {preview} # ({range:?})", "", << >>, preview.text, rng, 0)]

\* Mutants of the first half of the inlining test.
AtLeastOneChild(t, x) == IsRule(t, x) /\ Len(t.children[x]) >= 1
AtMostOneChild(t, x) == IsRule(t, x) /\ Len(t.children[x]) <= 1

\* Node::Rule(rule) if rule.children.len() == 1
SingleChild(t, x) == IsRule(t, x) /\ Len(t.children[x]) = 1

\* A mutant: the loop over the children stops one child early.
AllButLastChild(t, x) ==
    IF Len(t.children[x]) > 1 THEN Len(t.children[x]) - 1 ELSE Len(t.children[x])

\* for _ in cursor.node().children(): the number of iterations.
ChildCount(t, x) == Len(t.children[x])

\* The cell after the inlining test: && evaluates NON_INLINABLE only for a Rule
\* node with one child.
CellAfterTest(t, x, c) == IF SingleChild(t, x) THEN Force(c) ELSE c

\* matches!(cursor.node(), Node::Rule(rule)
\*     if rule.children.len() == 1 && !NON_INLINABLE.contains(&rule.kind))
Inlines(t, x, c) == SingleChild(t, x) /\ t.kind[x] \notin Force(c).value

InitRunsAfter(t, x) ==
    IF SingleChild(t, x) /\ cell.state # "complete" THEN initRuns + 1 ELSE initRuns

Panic(what) == pc' = "panicked" /\ failed' = what

\* The calls of write_node still active once every call whose loop over the
\* children has ended has returned to its caller.
RECURSIVE Returned(_)
Returned(calls) ==
    IF calls = << >> \/ calls[Len(calls)].remaining > 0 THEN calls
    ELSE Returned(SubSeq(calls, 1, Len(calls) - 1))

\* A byte text per diagnostic; the second has two lines.
ErrorInputs == { << >>, << << 101 >>, << 101, 10, 102 >> >> }

InitRender ==
    /\ tree \in Trees
    /\ errors \in ErrorInputs
    /\ source = NodeText(tree, Root)
    /\ cursor = NewCursor
    /\ stack = << >>
    /\ w = << >>
    /\ pc = "idle"
    /\ failed = ""
    /\ advances = 0
    /\ visited = << >>
    /\ inlined = {}
    /\ renders = 0
    /\ out1 = << >>
    /\ cell = NewCell
    /\ threads = << >>
    /\ initRuns = 0
    /\ range = << 0, 0 >>
    /\ contents = << >>
    /\ line_data = << >>
    /\ offset = 0

\* render up to the first write of write_node: the source, the errors, "Tree:",
\* and the indentation of the root's line, with a fresh cursor at the root.
Render ==
    /\ pc \in {"idle", "returned"}
    /\ renders < 2
    /\ w' = NewOutput(w) \o write_source(source) \o << Lit("") >>
              \o write_errors(errors) \o << Lit("") >>
              \o << Lit("Tree:"), Indentation(0) >>
    /\ cursor' = NewCursor
    /\ stack' = << [depth |-> 0, remaining |-> 0] >>
    /\ advances' = 0
    /\ visited' = << Root >>
    /\ inlined' = {}
    /\ pc' = "loop"
    /\ UNCHANGED << source, errors, tree, failed, renders, out1, cell, threads,
                    initRuns, range, contents, line_data, offset >>

\* One pass of the loop of write_node that inlines: the key, the advance to the
\* only child, the two assertions, the arrow.
WriteNodeInline ==
    /\ pc = "loop"
    /\ Inlines(tree, cursor.node, cell)
    /\ LET parent_range == text_range(tree, cursor)
           next == go_to_next(tree, cursor)
           child_range == text_range(tree, next.c)
       IN  /\ cursor' = next.c
           /\ cell' = CellAfterTest(tree, cursor.node, cell)
           /\ initRuns' = InitRunsAfter(tree, cursor.node)
           /\ IF ~next.ok
              THEN /\ Panic("assert!(cursor.go_to_next()) in the inlining loop")
                   /\ w' = w \o << render_key(tree, cursor) >>
                   /\ UNCHANGED << advances, visited, inlined >>
              ELSE /\ advances' = advances + 1
                   /\ visited' = Append(visited, next.c.node)
                   /\ IF parent_range # child_range
                      THEN /\ Panic("assert_eq!(parent_range, child_range)")
                           /\ w' = w \o << render_key(tree, cursor) >>
                           /\ UNCHANGED inlined
                      ELSE /\ w' = w \o << render_key(tree, cursor), Lit(" > ") >>
                           /\ inlined' = inlined \cup
                                {[node |-> cursor.node, parent_range |-> parent_range,
                                  child_range |-> child_range]}
                           /\ UNCHANGED << pc, failed >>
    /\ UNCHANGED << source, errors, tree, stack, renders, out1, threads, range,
                    contents, line_data, offset >>

\* The last pass of the loop of write_node and the line's value; a node without
\* children ends its call, and the calls whose last child it was.
WriteNodeValue ==
    /\ pc = "loop"
    /\ ~Inlines(tree, cursor.node, cell)
    /\ cell' = CellAfterTest(tree, cursor.node, cell)
    /\ initRuns' = InitRunsAfter(tree, cursor.node)
    /\ LET value == render_value(tree, cursor, source)
           calls == Returned([stack EXCEPT ![Len(stack)].remaining =
                                               ChildCount(tree, cursor.node)])
       IN  IF ~value.ok
           THEN /\ Panic("String::from_utf8(contents).unwrap()")
                /\ w' = w \o << render_key(tree, cursor) >>
                /\ UNCHANGED stack
           ELSE /\ w' = w \o << render_key(tree, cursor), value.piece >>
                /\ stack' = calls
                /\ pc' = IF calls = << >> THEN "walked" ELSE "children"
                /\ UNCHANGED failed
    /\ UNCHANGED << source, errors, tree, cursor, advances, visited, inlined, renders,
                    out1, threads, range, contents, line_data, offset >>

\* One iteration of the loop over the children: the advance and the call of
\* write_node for the child, up to its first write.
WriteNodeChild ==
    /\ pc = "children"
    /\ stack[Len(stack)].remaining > 0
    /\ LET next == go_to_next(tree, cursor) IN
       /\ cursor' = next.c
       /\ IF ~next.ok
          THEN /\ Panic("assert!(cursor.go_to_next()) in the loop over the children")
               /\ UNCHANGED << stack, w, advances, visited >>
          ELSE /\ advances' = advances + 1
               /\ visited' = Append(visited, next.c.node)
               /\ stack' = Append(
                    [stack EXCEPT ![Len(stack)].remaining = stack[Len(stack)].remaining - 1],
                    [depth |-> stack[Len(stack)].depth + 1, remaining |-> 0])
               /\ w' = w \o << Indentation(stack[Len(stack)].depth + 1) >>
               /\ pc' = "loop"
               /\ UNCHANGED failed
    /\ UNCHANGED << source, errors, tree, inlined, renders, out1, cell, threads,
                    initRuns, range, contents, line_data, offset >>

\* assert!(!cursor.go_to_next()); Ok(()) and the return of render.
WriteTreeEnd ==
    /\ pc = "walked"
    /\ LET next == go_to_next(tree, cursor) IN
       /\ cursor' = next.c
       /\ IF next.ok
          THEN /\ Panic("assert!(!cursor.go_to_next())")
               /\ UNCHANGED << renders, out1 >>
          ELSE /\ pc' = "returned"
               /\ renders' = renders + 1
               /\ out1' = IF renders = 0 THEN w ELSE out1
               /\ UNCHANGED failed
    /\ UNCHANGED << source, errors, tree, stack, w, advances, visited, inlined, cell,
                    threads, initRuns, range, contents, line_data, offset >>

NextRender ==
    \/ Render
    \/ WriteNodeInline
    \/ WriteNodeValue
    \/ WriteNodeChild
    \/ WriteTreeEnd

SpecRender == InitRender /\ [][NextRender]_vars

----------------------------------------------------------------------------
(* Properties of the render *)

\* The nodes of the subtree at x, a parent before its children, children before
\* later siblings.
RECURSIVE PreOrder(_, _)
PreOrder(t, x) ==
    << x >> \o Flatten([i \in 1..Len(t.children[x]) |-> PreOrder(t, t.children[x][i])])

ParentOf(t, x) ==
    IF \E q \in 1..t.size : \E i \in 1..Len(t.children[q]) : t.children[q][i] = x
    THEN CHOOSE q \in 1..t.size : \E i \in 1..Len(t.children[q]) : t.children[q][i] = x
    ELSE 0

\* Where the text of a node starts: where its parent starts, after the texts of
\* its earlier siblings.
RECURSIVE StartOf(_, _)
StartOf(t, x) ==
    LET q == ParentOf(t, x) IN
    IF q = 0 THEN 0
    ELSE LET i == CHOOSE j \in 1..Len(t.children[q]) : t.children[q][j] = x
             RECURSIVE Before(_)
             Before(j) == IF j = 0 THEN 0 ELSE TextLen(t, t.children[q][j]) + Before(j - 1)
         IN  StartOf(t, q) + Before(i - 1)

NodeRange(t, x) == << StartOf(t, x), StartOf(t, x) + TextLen(t, x) >>

InlinedNodes == {e.node : e \in inlined}

\* The nodes whose line write_node has finished deciding.
Decided ==
    {visited[i] : i \in {j \in 1..Len(visited) : j < Len(visited) \/ pc # "loop"}}

\* C1: walk completeness: once write_node has returned to write_tree, the cursor
\* has stood on every node and the next go_to_next() returns false, so the
\* assertion that ends write_tree never fails.
WalkComplete ==
    /\ failed # "assert!(!cursor.go_to_next())"
    /\ pc = "walked" =>
          /\ ~go_to_next(tree, cursor).ok
          /\ {visited[i] : i \in 1..Len(visited)} = 1..tree.size
    /\ pc = "returned" => cursor.completed /\ ~go_to_next(tree, cursor).ok

WalkCompleteWitness ==
    /\ pc = "returned"
    /\ tree.size >= 3
    /\ Len(tree.children[Root]) >= 2
    /\ failed = ""

InliningEligibility ==
    /\ cell.state = "complete" =>
          \A i \in 1..Len(Items) :
             Items[i].name \in cell.value <=> Items[i].tag \in {"Repeated", "Separated"}
    /\ \A x \in Decided :
          x \in InlinedNodes <=>
             /\ tree.kind[x] \in RuleKind
             /\ Len(tree.children[x]) = 1
             /\ ItemTag(tree.kind[x]) \notin {"Repeated", "Separated"}
    /\ pc # "panicked" =>
          Cardinality({i \in 1..Len(w) : w[i].t = " > "}) = Cardinality(InlinedNodes)

InliningEligibilityWitness ==
    /\ pc = "returned"
    /\ tree.size = 3
    /\ ItemTag(tree.kind[1]) = "Separated" /\ Len(tree.children[1]) = 1
    /\ ItemTag(tree.kind[2]) = "Precedence" /\ Len(tree.children[2]) = 1
    /\ InlinedNodes = {2}

\* C4: when write_node inlines a node, the range of the node equals the range of
\* the node the cursor reaches next, its only child, and both are the range the
\* node's text has in the source; the assert_eq never fails.
InlinedRangesEqual ==
    /\ failed # "assert_eq!(parent_range, child_range)"
    /\ \A e \in inlined :
          /\ e.parent_range = e.child_range
          /\ e.parent_range = NodeRange(tree, e.node)
          /\ e.child_range = NodeRange(tree, tree.children[e.node][1])

InlinedRangesEqualWitness ==
    /\ pc = "returned"
    /\ Cardinality(inlined) = 2
    /\ \A e \in inlined : e.parent_range = << 0, 2 >>

\* C5: a render leaves the source, the diagnostics, the tree and the initialized
\* NON_INLINABLE as they are, and every later render of the same source,
\* diagnostics and tree returns the output of the first.
RenderIdempotent ==
    [][/\ tree' = tree
       /\ source' = source
       /\ errors' = errors
       /\ cell.state = "complete" => cell' = cell
       /\ (pc' = "returned" /\ renders' > 1) => w' = out1']_vars

RenderIdempotentWitness ==
    /\ pc = "returned"
    /\ renders = 2
    /\ w = out1
    /\ cell.state = "complete"
    /\ InlinedNodes # {}
    /\ errors # << >>

----------------------------------------------------------------------------
(* NON_INLINABLE used by several threads: once_cell::sync::Lazy *)

renderVars == << tree, errors, cursor, stack, w, advances, visited, inlined,
                 renders, out1 >>

RenderUnused ==
    /\ tree = << >>
    /\ errors = << >>
    /\ cursor = NewCursor
    /\ stack = << >>
    /\ w = << >>
    /\ advances = 0
    /\ visited = << >>
    /\ inlined = {}
    /\ renders = 0
    /\ out1 = << >>

Thread == 1..MaxThreads

NewThread ==
    [pc |-> "idle", kinds |-> {}, next |-> 1, accesses |-> 0, raced |-> FALSE,
     observed |-> << >>]

InitLazy ==
    /\ RenderUnused
    /\ source = << >>
    /\ pc = "threads"
    /\ failed = ""
    /\ cell = NewCell
    /\ threads = [t \in Thread |-> NewThread]
    /\ initRuns = 0
    /\ range = << 0, 0 >>
    /\ contents = << >>
    /\ line_data = << >>
    /\ offset = 0

\* A mutant: the initializer is started without looking at the state of the cell.
BeginsUnguarded(state) == TRUE

\* The guard of the cell: only the thread that finds it incomplete, and turns it
\* to running in the same step, runs the initializer.
BeginsInit(state) == state = "incomplete"

notLazy == << renderVars, source, pc, failed, range, contents, line_data, offset >>

\* A thread reaches NON_INLINABLE.contains(..): the first look at the cell.
LazyAccess(t) ==
    /\ threads[t].pc = "idle"
    /\ threads[t].accesses < MaxAccesses
    /\ threads' = [threads EXCEPT
                     ![t].accesses = @ + 1,
                     ![t].pc = IF cell.state = "complete" THEN "read" ELSE "slow",
                     ![t].raced = @ \/ cell.state # "complete"]
    /\ UNCHANGED << cell, initRuns, notLazy >>

\* The thread takes the cell and starts the initializer.
LazyBegin(t) ==
    /\ threads[t].pc = "slow"
    /\ BeginsInit(cell.state)
    /\ cell' = [cell EXCEPT !.state = "running"]
    /\ initRuns' = initRuns + 1
    /\ threads' = [threads EXCEPT ![t].pc = "init", ![t].kinds = {}, ![t].next = 1]
    /\ UNCHANGED notLazy

\* Another thread holds the cell: wait until it is complete.
LazyWait(t) ==
    /\ threads[t].pc = "slow"
    /\ cell.state = "running"
    /\ threads' = [threads EXCEPT ![t].pc = "wait"]
    /\ UNCHANGED << cell, initRuns, notLazy >>

\* The cell was completed between the first look and the second.
LazyFound(t) ==
    /\ threads[t].pc = "slow"
    /\ cell.state = "complete"
    /\ threads' = [threads EXCEPT ![t].pc = "read"]
    /\ UNCHANGED << cell, initRuns, notLazy >>

\* One iteration of the initializer's loop over the items.
LazyInitStep(t) ==
    /\ threads[t].pc = "init"
    /\ threads[t].next <= Len(Items)
    /\ threads' = [threads EXCEPT
                     ![t].kinds = InsertItem(@, Items[threads[t].next]),
                     ![t].next = @ + 1]
    /\ UNCHANGED << cell, initRuns, notLazy >>

\* The initializer returns kinds: the value is stored and the cell is complete.
LazyPublish(t) ==
    /\ threads[t].pc = "init"
    /\ threads[t].next > Len(Items)
    /\ cell' = [state |-> "complete", value |-> threads[t].kinds]
    /\ threads' = [threads EXCEPT ![t].pc = "read"]
    /\ UNCHANGED << initRuns, notLazy >>

LazyWake(t) ==
    /\ threads[t].pc = "wait"
    /\ cell.state = "complete"
    /\ threads' = [threads EXCEPT ![t].pc = "read"]
    /\ UNCHANGED << cell, initRuns, notLazy >>

\* The thread reads the set.
LazyRead(t) ==
    /\ threads[t].pc = "read"
    /\ threads' = [threads EXCEPT ![t].pc = "idle",
                                  ![t].observed = Append(@, cell.value)]
    /\ UNCHANGED << cell, initRuns, notLazy >>

NextLazy ==
    \E t \in Thread :
        \/ LazyAccess(t)
        \/ LazyBegin(t)
        \/ LazyWait(t)
        \/ LazyFound(t)
        \/ LazyInitStep(t)
        \/ LazyPublish(t)
        \/ LazyWake(t)
        \/ LazyRead(t)

SpecLazy == InitLazy /\ [][NextLazy]_vars

\* C6: the initializer of NON_INLINABLE is started at most once however the first
\* uses interleave, every read sees the whole set, never an empty or partial
\* one, and the value of the completed cell is never another.
InitializedOnce ==
    /\ initRuns <= 1
    /\ initRuns = 1 <=> cell.state # "incomplete"
    /\ cell.state = "complete" =>
          cell.value = {Items[i].name : i \in {j \in 1..Len(Items) :
                            Items[j].tag \in {"Repeated", "Separated"}}}
    /\ \A t \in Thread :
          /\ threads[t].pc = "read" => cell.state = "complete"
          /\ \A i \in 1..Len(threads[t].observed) :
                threads[t].observed[i] = {"Statements", "Arguments"}

InitializedOnceWitness ==
    /\ initRuns = 1
    /\ \A t \in Thread : threads[t].raced /\ Len(threads[t].observed) = MaxAccesses
    /\ \E t \in Thread : threads[t].next > Len(Items)

----------------------------------------------------------------------------
(* write_source, line by line *)

LazyUnused == cell = NewCell /\ threads = << >> /\ initRuns = 0

\* The characters of the sources listed: a letter, CR, LF and a two-byte letter.
SourceChars == { << 97 >>, << CR >>, << LF >>, << 195, 169 >> }

\* The texts of at most n characters.
RECURSIVE Texts(_, _)
Texts(chars, n) ==
    IF n = 0 THEN { << >> }
    ELSE LET shorter == Texts(chars, n - 1) IN
         shorter \cup {t \o c : t \in shorter, c \in chars}

InitSource ==
    /\ RenderUnused
    /\ LazyUnused
    /\ source \in Texts(SourceChars, MaxSrcChars)
    /\ pc = "idle"
    /\ failed = ""
    /\ range = << 0, 0 >>
    /\ contents = << >>
    /\ line_data = << >>
    /\ offset = 0

notSource == << tree, errors, cursor, stack, advances, visited, inlined, renders,
                out1, cell, threads, initRuns, source, failed, range, contents >>

\* if source.is_empty() { writeln!(w, "Source: \"\"")?; return Ok(()); }
WriteSourceEmpty ==
    /\ pc = "idle"
    /\ source = << >>
    /\ w' = << Lit("Source: \"\"") >>
    /\ pc' = "returned"
    /\ UNCHANGED << line_data, offset, notSource >>

\* let line_data = ...; writeln!(w, "Source: >")?; let mut offset = 0;
WriteSourceHeader ==
    /\ pc = "idle"
    /\ source # << >>
    /\ line_data' = LineData(source)
    /\ w' = << Lit("Source: >") >>
    /\ offset' = 0
    /\ pc' = "lines"
    /\ UNCHANGED notSource

\* One iteration of the loop over line_data.
WriteSourceLine ==
    /\ pc = "lines"
    /\ line_data # << >>
    /\ LET l == SourceLine(Head(line_data), SourceWidth(LineData(source)), offset) IN
       /\ w' = Append(w, l.piece)
       /\ offset' = l.next
    /\ line_data' = Tail(line_data)
    /\ UNCHANGED << pc, notSource >>

WriteSourceReturn ==
    /\ pc = "lines"
    /\ line_data = << >>
    /\ pc' = "returned"
    /\ UNCHANGED << w, line_data, offset, notSource >>

NextSource ==
    \/ WriteSourceEmpty
    \/ WriteSourceHeader
    \/ WriteSourceLine
    \/ WriteSourceReturn

SpecSource == InitSource /\ [][NextSource]_vars

\* The length of the terminator that ends the line ending at byte offset e of the
\* text: 2 for CR LF, 1 for LF, 0 at the end of the text.
TerminatorLen(text, e) ==
    IF e + 2 <= Len(text) /\ text[e + 1] = CR /\ text[e + 2] = LF THEN 2
    ELSE IF e + 1 <= Len(text) /\ text[e + 1] = LF THEN 1
    ELSE 0

\* C7: the range written beside each line is the byte range the line's text has
\* in the source: the bytes of the source at that range are the bytes of the
\* line, the first range starts at 0, and each later range starts right after
\* the terminator of the line before.
LineRangesAreByteRanges ==
    \A i \in 2..Len(w) :
        /\ w[i].r[2] <= Len(source)
        /\ SubSeq(source, w[i].r[1] + 1, w[i].r[2]) = w[i].p
        /\ i = 2 => w[i].r[1] = 0
        /\ i > 2 => w[i].r[1] = w[i - 1].r[2] + TerminatorLen(source, w[i - 1].r[2])

----------------------------------------------------------------------------
(* render_preview, step by step *)

\* The characters around the plain run of a previewed source: the two quotes, the
\* three escaped characters, and characters of two, three and four bytes.
PreviewChars ==
    { << DQUOTE >>, << SQUOTE >>, << TAB >>, << CR >>, << LF >>,
      << 195, 169 >>, << 226, 130, 172 >>, << 240, 159, 152, 128 >> }

\* The lengths of the plain run: a few short ones, and those around max_length.
PadLengths == (0..MaxShortPad) \cup ((max_length - MaxNear)..(max_length + MaxOver))

\* The previewed sources with the node range in each: some letters before the
\* range; in the range a first character, a run of letters, a middle character
\* and a last character, the last one inside the range or right after it.
PreviewInputs ==
    {[source |-> Repeat(98, before) \o first \o Repeat(97, pad) \o middle \o last,
      range |-> << before, before + Len(first) + pad + Len(middle)
                             + (IF inside THEN Len(last) ELSE 0) >>] :
        before \in 0..MaxStart,
        first \in PreviewChars \cup { << >> },
        pad \in PadLengths,
        middle \in PreviewChars \cup { << >> },
        last \in PreviewChars \cup { << >> },
        inside \in BOOLEAN}

InitPreview ==
    /\ RenderUnused
    /\ LazyUnused
    /\ \E in \in PreviewInputs : source = in.source /\ range = in.range
    /\ pc = "idle"
    /\ failed = ""
    /\ contents = << >>
    /\ line_data = << >>
    /\ offset = 0

notPreview == << renderVars, cell, threads, initRuns, source, range, line_data, offset >>

\* let contents = source.bytes().skip(range.start).take(..).collect();
PreviewCollect ==
    /\ pc = "idle"
    /\ contents' = Collect(source, range)
    /\ pc' = "collected"
    /\ UNCHANGED << failed, notPreview >>

\* String::from_utf8(contents).unwrap() and the terminator of a trimmed value.
PreviewTrim ==
    /\ pc = "collected"
    /\ IF Utf8Valid(contents)
       THEN /\ contents' = AddTerminator(contents, range[2] - range[1])
            /\ pc' = "trimmed"
            /\ UNCHANGED failed
       ELSE /\ Panic("String::from_utf8(contents).unwrap()")
            /\ UNCHANGED contents
    /\ UNCHANGED notPreview

PreviewEscape ==
    /\ pc = "trimmed"
    /\ contents' = Escape(contents)
    /\ pc' = "escaped"
    /\ UNCHANGED << failed, notPreview >>

PreviewQuote ==
    /\ pc = "escaped"
    /\ contents' = Quote(contents)
    /\ pc' = "returned"
    /\ UNCHANGED << failed, notPreview >>

NextPreview ==
    \/ PreviewCollect
    \/ PreviewTrim
    \/ PreviewEscape
    \/ PreviewQuote

SpecPreview == InitPreview /\ [][NextPreview]_vars

Length == range[2] - range[1]

\* The first n bytes of the source from the start of the range.
FirstBytes(n) == SubSeq(source, range[1] + 1, range[1] + n)

\* The text before it is escaped: the bytes kept and the marker of a longer range.
Trimmed ==
    IF Length > 50 THEN FirstBytes(50) \o << 46, 46, 46 >> ELSE FirstBytes(Length)

\* What one byte of the text becomes in the escaped text.
Escaped(b) ==
    IF b = 9 THEN << 92, 116 >>
    ELSE IF b = 13 THEN << 92, 114 >>
    ELSE IF b = 10 THEN << 92, 110 >>
    ELSE << b >>

EscapedText(text) == Flatten([i \in 1..Len(text) |-> Escaped(text[i])])

\* Every run of the byte b in the text has an even length.
RECURSIVE OnlyDoubledFrom(_, _, _)
OnlyDoubledFrom(text, b, i) ==
    IF i > Len(text) THEN TRUE
    ELSE IF text[i] # b THEN OnlyDoubledFrom(text, b, i + 1)
    ELSE i + 1 <= Len(text) /\ text[i + 1] = b /\ OnlyDoubledFrom(text, b, i + 2)

\* A text from its i-th byte on, with every doubled b made single again.
RECURSIVE UndoubledFrom(_, _, _)
UndoubledFrom(text, b, i) ==
    IF i > Len(text) THEN << >>
    ELSE IF text[i] = b /\ i + 1 <= Len(text) /\ text[i + 1] = b
         THEN << b >> \o UndoubledFrom(text, b, i + 2)
    ELSE << text[i] >> \o UndoubledFrom(text, b, i + 1)

\* C8: render_preview keeps exactly the first min(L, 50) bytes of the range of
\* length L and appends "..." if and only if L > 50; a range of exactly 50 bytes
\* is kept whole, without the marker.
PreviewTruncation ==
    /\ pc = "collected" => contents = FirstBytes(IF Length < 50 THEN Length ELSE 50)
    /\ pc = "trimmed" => contents = Trimmed
    /\ pc = "trimmed" /\ Length <= 50 => contents = SubSeq(source, range[1] + 1, range[2])
    /\ pc = "trimmed" /\ Length > 50 =>
          /\ Len(contents) = 53
          /\ SubSeq(contents, 51, 53) = << 46, 46, 46 >>
          /\ SubSeq(contents, 1, 50) = SubSeq(source, range[1] + 1, range[1] + 50)

PreviewTruncationWitness ==
    /\ pc = "trimmed"
    /\ Length = 50
    /\ range[1] > 0
    /\ range[2] < Len(source)
    /\ contents = SubSeq(source, range[1] + 1, range[2])
    /\ contents[50] = 128

\* C9: the value returned is the escaped text in double quotes when the text has
\* no double quote, and in single quotes with every single quote doubled when it
\* has one; the delimiter never stands undoubled in the body, and no tab,
\* carriage return or newline is left raw: each is its two-character escape.
PreviewQuoting ==
    pc = "returned" =>
        LET text == EscapedText(Trimmed)
            body == SubSeq(contents, 2, Len(contents) - 1)
        IN  /\ Len(contents) >= 2
            /\ \A i \in 1..Len(contents) : contents[i] \notin {9, 13, 10}
            /\ IF \E i \in 1..Len(text) : text[i] = 34
               THEN /\ contents[1] = 39 /\ contents[Len(contents)] = 39
                    /\ OnlyDoubledFrom(body, 39, 1)
                    /\ UndoubledFrom(body, 39, 1) = text
               ELSE /\ contents[1] = 34 /\ contents[Len(contents)] = 34
                    /\ \A i \in 1..Len(body) : body[i] # 34
                    /\ body = text

PreviewQuotingWitness ==
    /\ pc = "returned"
    /\ range[1] > 0
    /\ contents = << 39, 39, 39, 92, 110, 34, 39 >>

\* C10: render_preview returns for every range whose two ends are on character
\* boundaries of the source: the UTF-8 conversion of the bytes kept never fails.
PreviewNeverPanics ==
    (range[1] \in Boundaries(source) /\ range[2] \in Boundaries(source)) =>
        failed # "String::from_utf8(contents).unwrap()"

=============================================================================
